---- MODULE Spec2Model ----
(***************************************************************************)
(* The review pipeline of cr-ai: changesCommand (src/commands/changes.js)  *)
(* driving git.status / git.diff, reviewCode (version.js:64-205) and       *)
(* formatAndDisplayReview over the list of changed files.                  *)
(*                                                                         *)
(* A JavaScript async function runs without interruption between awaits,   *)
(* so the position of changesCommand is one of its awaits (pc) and every   *)
(* action is the continuation that runs when that await settles.  The one  *)
(* exception is the top of a loop iteration (pc = "loop"), which is kept   *)
(* as a position of its own so that one action handles one file.           *)
(***************************************************************************)
EXTENDS Integers, Sequences, FiniteSets, TLC

VARIABLES
    pc,             \* position of changesCommand
    envKey,         \* process.env.GEMINI_API_KEY ("" when unset)
    config,         \* what loadConfig returned
    changedFiles,   \* changes.js:42 changedFiles
    idx,            \* position of the for..of loop over changedFiles
    state,          \* per entry of changedFiles: the branch of the loop body it left by
    reviewedCount,  \* changes.js:80
    skippedCount,   \* changes.js:81
    pending,        \* external calls issued and not yet settled
    trace,          \* console output and external calls, in order
    summary,        \* the REVIEW SUMMARY block, once printed
    calc            \* one call of a pure function: its arguments and its result

vars == << pc, envKey, config, changedFiles, idx, state, reviewedCount,
           skippedCount, pending, trace, summary, calc >>

----------------------------------------------------------------------------
(* Bounds and input domains *)

\* Largest number of entries of changedFiles a status may produce.
MaxFiles == 2

\* The working tree's paths, in the order git reports them.
PathList ==
    << << "a", ".", "p", "y" >>,
       << "b", ".", "J", "S" >>,
       << "c", ".", "m", "d" >>,
       << "i", ".", "p", "n", "g" >> >>

\* git's two-letter status of a path, as simple-git files it: "M" modified,
\* "A" created, "AM" created and modified, "R" renamed, "RM" renamed and
\* modified, "" unchanged.
StatusCodes == { "", "M", "A", "AM", "R", "RM" }

RECURSIVE Pick(_, _, _)
Pick(c, S, k) ==
    IF k > Len(PathList) THEN << >>
    ELSE (IF c[k] \in S THEN << PathList[k] >> ELSE << >>) \o Pick(c, S, k + 1)

RenamedFrom(p) == << "o", "l", "d", "/" >> \o p

RenamedEntries(ps) == [ k \in 1..Len(ps) |-> [ from |-> RenamedFrom(ps[k]), to |-> ps[k] ] ]

StatusOf(c) ==
    [ modified |-> Pick(c, { "M", "AM", "RM" }, 1),
      created  |-> Pick(c, { "A", "AM" }, 1),
      renamed  |-> RenamedEntries(Pick(c, { "R", "RM" }, 1)) ]

\* The values git.status() may resolve to.
Statuses ==
    { s \in { StatusOf(c) : c \in [ 1..Len(PathList) -> StatusCodes ] } :
        Len(s.modified) + Len(s.created) + Len(s.renamed) <= MaxFiles }

\* The statuses of the three-file scenario: exactly three paths, each modified.
ThreeFileStatuses ==
    { s \in { StatusOf(c) : c \in [ 1..Len(PathList) -> { "", "M" } ] } :
        Len(s.modified) = 3 }

\* Values of config.model_name: absent/empty, the three supported names, and
\* a name that is not supported.
ModelNameInputs ==
    { "", "gemini-2.0-flash", "gemini-1.5-flash",
      "gemini-2.5-flash-preview-04-17", "gpt-4" }

\* What loadConfig may return when CR.json is read and parsed.
Configs ==
    [ found : { TRUE }, gemini_api_key : { "", "key" }, model_name : ModelNameInputs ]

\* loadConfig returning null.
NoConfig == [ found |-> FALSE, gemini_api_key |-> "", model_name |-> "" ]

\* What git.diff([file]) may do: reject, or resolve to a diff text.
DiffTexts == { << >>, << "-", "x", "\n", "+", "y" >> }
DiffOutcomes ==
    { [ threw |-> TRUE, text |-> << >> ] } \cup
    { [ threw |-> FALSE, text |-> d ] : d \in DiffTexts }

\* What callGeminiAPI may do: throw an Error with a message, or return
\* parts[0].text, which is a non-empty string, empty/undefined, or (the field
\* is not type-checked) a truthy value that is not a string.
RemoteOutcomes ==
    { [ ok |-> FALSE, value |-> "rate limited" ],
      [ ok |-> TRUE,  value |-> "text" ],
      [ ok |-> TRUE,  value |-> "empty" ],
      [ ok |-> TRUE,  value |-> "nonString" ] }

----------------------------------------------------------------------------
(* Pure helpers *)

\* String.prototype.toLowerCase on the characters the paths use (the /i flag).
Lower(ch) ==
    CASE ch = "J" -> "j"
      [] ch = "S" -> "s"
      [] OTHER -> ch

\* The alternatives of the regular expression of changes.js:86.
TextExtensions ==
    { << "j", "s" >>, << "j", "s", "x" >>, << "t", "s" >>, << "t", "s", "x" >>,
      << "p", "y" >>, << "j", "a", "v", "a" >>, << "c" >>, << "c", "p", "p" >>,
      << "h" >>, << "h", "p", "p" >>, << "c", "s" >>, << "g", "o" >>,
      << "r", "b" >>, << "p", "h", "p" >>, << "h", "t", "m", "l" >>,
      << "c", "s", "s" >>, << "s", "c", "s", "s" >>, << "j", "s", "o", "n" >>,
      << "m", "d" >>, << "t", "x", "t" >> }

EndsWithDotExt(file, e) ==
    /\ Len(file) >= Len(e) + 1
    /\ file[Len(file) - Len(e)] = "."
    /\ \A k \in 1..Len(e) : Lower(file[Len(file) - Len(e) + k]) = e[k]

IsTextFile_always(file) == TRUE

\* changes.js:86  file.match(/\.(js|...|txt)$/i)
IsTextFile(file) == \E e \in TextExtensions : EndsWithDotExt(file, e)

DiffIsEmpty_never(diff) == FALSE

\* changes.js:93  !diff
DiffIsEmpty(diff) == diff = << >>

DefaultModel == "gemini-2.0-flash"

\* version.js:177 supportedModels
supportedModels ==
    { "gemini-2.0-flash", "gemini-1.5-flash", "gemini-2.5-flash-preview-04-17" }

\* changes.js:76 and :124  config.model_name || 'gemini-2.0-flash'
PrintedModel(cfg) == IF cfg.model_name = "" THEN DefaultModel ELSE cfg.model_name

\* No validation: the name as it is given.
ValidatedModel_asGiven(m) == m

\* The validation of reviewCode (version.js:176-181) and, again, of
\* callGeminiAPI (version.js:216-220).
ValidatedModel(m) == IF m \in supportedModels THEN m ELSE DefaultModel

\* The model identifier of the request URL.
RequestModel(cfg) == ValidatedModel(ValidatedModel(PrintedModel(cfg)))

\* version.js:66  config.gemini_api_key || process.env.GEMINI_API_KEY
ApiKey(cfg, env) == IF cfg.gemini_api_key # "" THEN cfg.gemini_api_key ELSE env

Ev(k, f, m) == [ k |-> k, f |-> f, m |-> m ]

\* changes.js:42-46
BuildChangedFiles(status) ==
    status.modified \o status.created \o
    [ k \in 1..Len(status.renamed) |-> status.renamed[k].to ]

NoSummary == [ printed |-> FALSE, reviewed |-> 0, total |-> 0, skipped |-> 0, model |-> "" ]

\* No call of a pure function is being followed (the pipeline specifications).
NoCalc == [ fn |-> "none" ]

----------------------------------------------------------------------------
Init ==
    /\ pc = "loadConfig"
    /\ envKey \in { "", "envkey" }
    /\ config = NoConfig
    /\ changedFiles = << >>
    /\ idx = 0
    /\ state = << >>
    /\ reviewedCount = 0
    /\ skippedCount = 0
    /\ pending = { [ op |-> "loadConfig", f |-> 0 ] }
    /\ trace = << Ev("sectionHeader", 0, "CODE REVIEW") >>
    /\ summary = NoSummary
    /\ calc = NoCalc

NumFiles == Len(changedFiles)

Call(op, f) == [ op |-> op, f |-> f ]

----------------------------------------------------------------------------
(* Exception handling of changesCommand *)

TryRegion_noInner(pos) == IF pos = "top" THEN "none" ELSE "outer"

TryRegion_noOuter(pos) == IF pos \in { "diff", "review" } THEN "inner" ELSE "none"

\* Which try block encloses a position of changesCommand: the per-file try of
\* changes.js:84 (inside the outer one), the outer try of changes.js:21, or
\* neither (the printSectionHeader call of line 19).
TryRegion(pos) ==
    CASE pos \in { "diff", "review" } -> "inner"
      [] pos \in { "loadConfig", "checkIsRepo", "status", "loop" } -> "outer"
      [] OTHER -> "none"

PerFileCatch_retry(i, tr) ==
    /\ trace' = Append(tr, Ev("error:processing", i, ""))
    /\ state' = [ state EXCEPT ![i] = "Pending" ]
    /\ idx' = idx
    /\ pc' = "loop"
    /\ UNCHANGED << reviewedCount, skippedCount, summary >>

\* changes.js:115-117: printError, then the loop goes on with the next file.
PerFileCatch(i, tr) ==
    /\ trace' = Append(tr, Ev("error:processing", i, ""))
    /\ state' = [ state EXCEPT ![i] = "Failed" ]
    /\ idx' = idx + 1
    /\ pc' = "loop"
    /\ UNCHANGED << reviewedCount, skippedCount, summary >>

\* changes.js:128-130: printError, and changesCommand returns.
OuterCatch(tr) ==
    /\ trace' = Append(tr, Ev("error:reviewing", 0, ""))
    /\ pc' = "done"
    /\ UNCHANGED << state, idx, reviewedCount, skippedCount, summary >>

\* An exception no try block encloses rejects the promise of changesCommand.
Escape(tr) ==
    /\ trace' = tr
    /\ pc' = "rejected"
    /\ UNCHANGED << state, idx, reviewedCount, skippedCount, summary >>

\* An exception raised at position pos while file i is being processed.
Throw(pos, i, tr) ==
    CASE TryRegion(pos) = "inner" -> PerFileCatch(i, tr)
      [] TryRegion(pos) = "outer" -> OuterCatch(tr)
      [] OTHER -> Escape(tr)

HaltRun_fallthrough(next) == pc' = next

\* changes.js:26 and :36: the return that follows the printed message.
HaltRun(next) == pc' = "done"

----------------------------------------------------------------------------
(* Preconditions and discovery *)

\* changes.js:23-27: await loadConfig() settles.
LoadConfig ==
    /\ pc = "loadConfig"
    /\ Call("loadConfig", 0) \in pending
    /\ \E c \in Configs \cup { NoConfig } :
        /\ config' = c
        /\ IF ~c.found
           THEN /\ trace' = Append(trace, Ev("warn:noConfig", 0, ""))
                /\ HaltRun("checkIsRepo")
                /\ pending' = IF pc' = "done" THEN { } ELSE { Call("checkIsRepo", 0) }
           ELSE /\ trace' = Append(trace, Ev("call:checkIsRepo", 0, ""))
                /\ pc' = "checkIsRepo"
                /\ pending' = { Call("checkIsRepo", 0) }
    /\ UNCHANGED << envKey, changedFiles, idx, state, reviewedCount, skippedCount, summary >>

\* changes.js:33-41: await git.checkIsRepo() settles.
CheckIsRepo ==
    /\ pc = "checkIsRepo"
    /\ Call("checkIsRepo", 0) \in pending
    /\ \E r \in { "yes", "no", "throws" } :
        CASE r = "throws" ->
                /\ Throw("checkIsRepo", 0, Append(trace, Ev("rejected:checkIsRepo", 0, "")))
                /\ pending' = { }
          [] r = "no" ->
                /\ trace' = Append(trace, Ev("error:notRepo", 0, ""))
                /\ HaltRun("status")
                /\ pending' = IF pc' = "done" THEN { } ELSE { Call("status", 0) }
                /\ UNCHANGED << state, idx, reviewedCount, skippedCount, summary >>
          [] OTHER ->
                /\ trace' = trace \o << Ev("info:checking", 0, ""), Ev("call:status", 0, "") >>
                /\ pc' = "status"
                /\ pending' = { Call("status", 0) }
                /\ UNCHANGED << state, idx, reviewedCount, skippedCount, summary >>
    /\ UNCHANGED << envKey, config, changedFiles >>

\* changes.js:41-81: await git.status() settles with a rejection or one of the
\* statuses of S; the list is built and shown.
GitStatusFrom(S) ==
    /\ pc = "status"
    /\ Call("status", 0) \in pending
    /\ pending' = { }
    /\ \/ /\ Throw("status", 0, Append(trace, Ev("rejected:status", 0, "")))
          /\ UNCHANGED changedFiles
       \/ \E s \in S :
            LET files == BuildChangedFiles(s) IN
            /\ changedFiles' = files
            /\ IF Len(files) = 0
               THEN /\ trace' = Append(trace, Ev("warn:noChanges", 0, ""))
                    /\ pc' = "done"
                    /\ UNCHANGED << state, idx >>
               ELSE /\ trace' = trace \o << Ev("found", 0, ""),
                                            Ev("usingModel", 0, PrintedModel(config)) >>
                    /\ state' = [ i \in 1..Len(files) |-> "Pending" ]
                    /\ idx' = 1
                    /\ pc' = "loop"
            /\ UNCHANGED << reviewedCount, skippedCount, summary >>
    /\ UNCHANGED << envKey, config >>

----------------------------------------------------------------------------
(* The loop over changedFiles, changes.js:83-118 *)

AtLoopTop_noAwait(i) ==
    /\ pc \in { "loop", "diff", "review" }
    /\ i \in 1..NumFiles
    /\ state[i] = "Pending"
    /\ \A c \in pending : c.f # i

\* The for..of loop is at the top of the iteration for entry i: every await
\* of the earlier iterations has settled.
AtLoopTop(i) ==
    /\ pc = "loop"
    /\ idx = i
    /\ i \in 1..NumFiles

CountSkipped_forget(n) == n

\* changes.js:88 and :95  skippedCount++
CountSkipped(n) == n + 1

\* changes.js:114  reviewedCount++
CountReviewed(n) == n + 1

\* changes.js:86-90: an entry whose path has no recognized extension.
SkipBinary(i) ==
    /\ AtLoopTop(i)
    /\ ~IsTextFile(changedFiles[i])
    /\ trace' = Append(trace, Ev("warn:skipBinary", i, ""))
    /\ skippedCount' = CountSkipped(skippedCount)
    /\ state' = [ state EXCEPT ![i] = "Skipped" ]
    /\ idx' = i + 1
    /\ pc' = "loop"
    /\ UNCHANGED << envKey, config, changedFiles, reviewedCount, pending, summary >>

\* changes.js:92: git.diff([file]) is called and awaited.
StartDiff(i) ==
    /\ AtLoopTop(i)
    /\ IsTextFile(changedFiles[i])
    /\ trace' = Append(trace, Ev("call:diff", i, ""))
    /\ pending' = pending \cup { Call("diff", i) }
    /\ pc' = "diff"
    /\ UNCHANGED << envKey, config, changedFiles, idx, state, reviewedCount,
                    skippedCount, summary >>

\* reviewCode (version.js:64-186) up to its first await: without a credential it
\* returns the fallback text and sends nothing; with one it sends the request
\* for the validated model.
ReviewCodeCalls(i, cfg, env) ==
    IF ApiKey(cfg, env) = ""
    THEN << >>
    ELSE << Ev("call:remote", i, RequestModel(cfg)) >>

\* changes.js:92-109: await git.diff settles; an empty diff is a skip, any
\* other diff is announced and handed to reviewCode.
DiffSettles(i) ==
    /\ pc = "diff"
    /\ Call("diff", i) \in pending
    /\ \E o \in DiffOutcomes :
        IF o.threw
        THEN /\ Throw("diff", i, Append(trace, Ev("rejected:diff", i, "")))
             /\ pending' = pending \ { Call("diff", i) }
        ELSE IF DiffIsEmpty(o.text)
        THEN /\ trace' = trace \o << Ev("resolved:diff", i, "empty"), Ev("warn:noDiff", i, "") >>
             /\ skippedCount' = CountSkipped(skippedCount)
             /\ state' = [ state EXCEPT ![i] = "Skipped" ]
             /\ idx' = i + 1
             /\ pc' = "loop"
             /\ pending' = pending \ { Call("diff", i) }
             /\ UNCHANGED << reviewedCount, summary >>
        ELSE /\ trace' = trace \o << Ev("resolved:diff", i, IF o.text = << >> THEN "empty" ELSE "text"),
                                      Ev("fileHeader", i, "") >>
                              \o ReviewCodeCalls(i, config, envKey)
             /\ pending' = (pending \ { Call("diff", i) }) \cup { Call("reviewCode", i) }
             /\ pc' = "review"
             /\ UNCHANGED << state, idx, reviewedCount, skippedCount, summary >>
    /\ UNCHANGED << envKey, config, changedFiles >>

\* What reviewCode resolves to: the fallback text without a credential, the
\* response of callGeminiAPI, or (its catch, version.js:188-204) the error
\* text built from the failure's message.  reviewCode does not reject.
ReviewCodeResult(hasKey, o) ==
    IF ~hasKey THEN "fallback"
    ELSE IF o.ok THEN o.value
    ELSE "errorText"

\* formatAndDisplayReview: review.startsWith on a value that is no string
\* raises a TypeError; every string, and every falsy value, is printed.
RenderThrows(review) == review = "nonString"

\* changes.js:109-114: await reviewCode settles, the review is rendered and
\* the file is counted.
ReviewSettles(i) ==
    /\ pc = "review"
    /\ Call("reviewCode", i) \in pending
    /\ pending' = pending \ { Call("reviewCode", i) }
    /\ LET hasKey == ApiKey(config, envKey) # "" IN
       \E o \in (IF hasKey THEN RemoteOutcomes ELSE { [ ok |-> TRUE, value |-> "none" ] }) :
        LET review == ReviewCodeResult(hasKey, o)
            settled == IF ~hasKey THEN << >>
                       ELSE IF o.ok THEN << Ev("resolved:remote", i, o.value) >>
                       ELSE << Ev("rejected:remote", i, o.value),
                               Ev("console.error:api", i, o.value) >>
        IN IF RenderThrows(review)
           THEN Throw("review", i, trace \o settled)
           ELSE /\ trace' = trace \o settled \o << Ev("review", i, review) >>
                /\ reviewedCount' = CountReviewed(reviewedCount)
                /\ state' = [ state EXCEPT ![i] = "Reviewed" ]
                /\ idx' = i + 1
                /\ pc' = "loop"
                /\ UNCHANGED << skippedCount, summary >>
    /\ UNCHANGED << envKey, config, changedFiles >>

\* changes.js:120-127: the loop is over, the summary is printed.
Finish ==
    /\ pc = "loop"
    /\ idx > NumFiles
    /\ summary' = [ printed |-> TRUE, reviewed |-> reviewedCount, total |-> NumFiles,
                    skipped |-> skippedCount, model |-> PrintedModel(config) ]
    /\ trace' = trace \o << Ev("sectionHeader", 0, "REVIEW SUMMARY"),
                             Ev("success:completed", 0, "") >>
    /\ pc' = "done"
    /\ UNCHANGED << envKey, config, changedFiles, idx, state, reviewedCount,
                    skippedCount, pending >>

GitStatus == GitStatusFrom(Statuses)

GitStatusThree == GitStatusFrom(ThreeFileStatuses)

Next ==
    \/ LoadConfig /\ UNCHANGED calc
    \/ CheckIsRepo /\ UNCHANGED calc
    \/ GitStatus /\ UNCHANGED calc
    \/ \E i \in 1..MaxFiles : SkipBinary(i) /\ UNCHANGED calc
    \/ \E i \in 1..MaxFiles : StartDiff(i) /\ UNCHANGED calc
    \/ \E i \in 1..MaxFiles : DiffSettles(i) /\ UNCHANGED calc
    \/ \E i \in 1..MaxFiles : ReviewSettles(i) /\ UNCHANGED calc
    \/ Finish /\ UNCHANGED calc

Spec == Init /\ [][Next]_vars

\* The same program run on a working tree with exactly three modified paths.
NextThree ==
    \/ LoadConfig /\ UNCHANGED calc
    \/ CheckIsRepo /\ UNCHANGED calc
    \/ GitStatusThree /\ UNCHANGED calc
    \/ \E i \in 1..3 : SkipBinary(i) /\ UNCHANGED calc
    \/ \E i \in 1..3 : StartDiff(i) /\ UNCHANGED calc
    \/ \E i \in 1..3 : DiffSettles(i) /\ UNCHANGED calc
    \/ \E i \in 1..3 : ReviewSettles(i) /\ UNCHANGED calc
    \/ Finish /\ UNCHANGED calc

SpecThree == Init /\ [][NextThree]_vars

----------------------------------------------------------------------------
(* Reading the trace *)

Terminal == { "Skipped", "Reviewed", "Failed" }

\* The positions of the trace that hold an event of kind k about entry i.
At(k, i) == { p \in 1..Len(trace) : trace[p].k = k /\ trace[p].f = i }

Happened(k, i) == \E p \in 1..Len(trace) : trace[p].k = k /\ trace[p].f = i

\* The printed lines that end the processing of an entry.
TerminalPrints == { "warn:skipBinary", "warn:noDiff", "review", "error:processing" }

Files == 1..NumFiles

\* Processing of entry i raised an exception: git.diff rejected, or the
\* review handed to the renderer was no string.
Raised(i) ==
    \/ Happened("rejected:diff", i)
    \/ \E p \in At("resolved:remote", i) : trace[p].m = "nonString"

NumberIn(st) == Cardinality({ i \in Files : state[i] = st })

----------------------------------------------------------------------------
(* C1 - error handling of the loop body *)

\* C1: when processing entry i of changedFiles raises (git.diff rejects,
\* rendering throws), the failure is caught and reported for that entry, the
\* run goes on (it is never stuck, and once it is over every entry, the later
\* ones included, has been processed) and the final summary is printed.
C1_FailureDoesNotAbort ==
    \A i \in Files :
        Raised(i) =>
            /\ state[i] = "Failed"
            /\ Happened("error:processing", i)
            /\ pc \in { "loop", "diff", "review", "done" }
            /\ pc # "done" => idx > i /\ ENABLED Next
            /\ pc = "done" =>
                   /\ summary.printed
                   /\ \A j \in Files : state[j] \in Terminal

\* A finished run in which an entry failed and a later one was reviewed.
C1_Witness ==
    /\ pc = "done"
    /\ summary.printed
    /\ \E i, j \in Files :
        /\ i < j
        /\ Raised(i)
        /\ state[i] = "Failed"
        /\ state[j] = "Reviewed"

----------------------------------------------------------------------------
(* C2 - a failed remote call *)

\* The run reviewed three entries with a credential, and the remote call
\* failed for entry i only.
OneRemoteFailureOfThree(i) ==
    /\ pc = "done"
    /\ NumFiles = 3
    /\ i \in Files
    /\ Happened("rejected:remote", i)
    /\ \A j \in Files \ { i } :
        \E p \in At("resolved:remote", j) : trace[p].m = "text"

\* C2: with a credential configured, when the remote call fails for exactly
\* one of three reviewable files, that file ends Failed, the other two end
\* Reviewed and the summary reports 2 files reviewed out of 3.
C2_RemoteFailureIsFailed ==
    \A i \in Files :
        OneRemoteFailureOfThree(i) =>
            /\ state[i] = "Failed"
            /\ \A j \in Files \ { i } : state[j] = "Reviewed"
            /\ summary.printed
            /\ summary.reviewed = 2
            /\ summary.total = 3

----------------------------------------------------------------------------
(* C3 - sequential processing *)

\* The events that settle an external call made for an entry.
Settles(call, ev) ==
    /\ ev.f = call.f
    /\ \/ call.k = "call:diff" /\ ev.k \in { "resolved:diff", "rejected:diff" }
       \/ call.k = "call:remote" /\ ev.k \in { "resolved:remote", "rejected:remote" }

\* C3: entries are processed one at a time in discovery order: never more
\* than one external call is in flight; a call made for an entry is the last
\* thing that happens until it settles; the calls and printed lines of an
\* entry are contiguous; and those of entry N+1 (its diff request first)
\* begin only after the line that ends entry N (skip, review or error) was
\* printed, so that the output follows the order of the list.
C3_Sequential ==
    /\ Cardinality(pending) <= 1
    /\ \A p \in 1..Len(trace) :
        trace[p].k \in { "call:diff", "call:remote" } =>
            IF p = Len(trace)
            THEN pending = { Call(IF trace[p].k = "call:diff" THEN "diff" ELSE "reviewCode",
                                  trace[p].f) }
            ELSE Settles(trace[p], trace[p + 1])
    /\ \A p \in 1..(Len(trace) - 1) :
        LET a == trace[p]
            b == trace[p + 1]
        IN /\ (a.f = 0 /\ b.f > 0) => (b.f = 1 /\ a.k = "usingModel")
           /\ (a.f > 0 /\ b.f > 0 /\ a.f # b.f) =>
                  (b.f = a.f + 1 /\ a.k \in TerminalPrints)
           /\ (a.f > 0 /\ b.f = 0) => (a.f = NumFiles /\ a.k \in TerminalPrints)
           /\ (a.f > 0 /\ b.f > 0 /\ a.f = b.f) => a.k \notin TerminalPrints

\* Two consecutive entries both went through diff retrieval and a remote call.
C3_Witness ==
    /\ pc = "done"
    /\ \E i \in Files :
        /\ i + 1 \in Files
        /\ Happened("call:remote", i)
        /\ Happened("review", i)
        /\ Happened("call:diff", i + 1)
        /\ Happened("call:remote", i + 1)

----------------------------------------------------------------------------
(* C4 - the per-entry state machine *)

\* The state the printed line that ended an entry stands for.
StateOfPrint(k) ==
    CASE k \in { "warn:skipBinary", "warn:noDiff" } -> "Skipped"
      [] k = "review" -> "Reviewed"
      [] OTHER -> "Failed"

\* The positions of the lines that ended entry i.
EndsOf(i) == { p \in 1..Len(trace) : trace[p].f = i /\ trace[p].k \in TerminalPrints }

----------------------------------------------------------------------------
(* C5 - the summary's counts *)

----------------------------------------------------------------------------
(* C6 - paths without a recognized extension *)

APy == << "a", ".", "p", "y" >>

ImagePng == << "i", ".", "p", "n", "g" >>

\* C6: an entry whose path is i.png (no recognized extension) is never
\* diffed nor sent for review; when the loop passes it, it is Skipped with the
\* "likely binary" warning and counted as skipped.  For the list
\* << a.py, i.png >> with a.py reviewed the summary is 1 reviewed,
\* 1 skipped, total 2.
C6_BinarySkippedWithoutDiff ==
    /\ \A i \in Files :
        changedFiles[i] = ImagePng =>
            /\ ~Happened("call:diff", i)
            /\ ~Happened("call:remote", i)
            /\ state[i] \in { "Pending", "Skipped" }
            /\ idx > i => (state[i] = "Skipped" /\ Happened("warn:skipBinary", i))
    /\ skippedCount >= Cardinality({ i \in Files : changedFiles[i] = ImagePng /\ idx > i })
    /\ (summary.printed /\ changedFiles = << APy, ImagePng >> /\ state[1] = "Reviewed") =>
        (summary.reviewed = 1 /\ summary.skipped = 1 /\ summary.total = 2)

\* The scenario: a.py reviewed, i.png skipped, summary printed.
C6_Witness ==
    /\ summary.printed
    /\ changedFiles = << APy, ImagePng >>
    /\ state = << "Reviewed", "Skipped" >>
    /\ Happened("call:diff", 1)
    /\ ~Happened("call:diff", 2)

----------------------------------------------------------------------------
(* C7 - an empty diff *)

EmptyDiff(i) == \E p \in At("resolved:diff", i) : trace[p].m = "empty"

\* C7: when git.diff resolves to the empty string for an entry, the entry is
\* Skipped with the "no diff" warning and counted as skipped, no remote call
\* is made for it, no error is reported for it, and the loop goes on with the
\* next entry.
C7_EmptyDiffIsSkip ==
    /\ \A i \in Files :
        EmptyDiff(i) =>
            /\ state[i] = "Skipped"
            /\ Happened("warn:noDiff", i)
            /\ ~Happened("call:remote", i)
            /\ ~Happened("fileHeader", i)
            /\ ~Happened("error:processing", i)
            /\ ~Happened("error:reviewing", 0)
            /\ idx > i
            /\ pc = "done" \/ ENABLED Next
    /\ skippedCount >= Cardinality({ i \in Files : EmptyDiff(i) })

\* An entry with an empty diff was skipped and a later entry was reviewed.
C7_Witness ==
    /\ pc = "done"
    /\ \E i, j \in Files :
        /\ i < j
        /\ EmptyDiff(i)
        /\ state[i] = "Skipped"
        /\ state[j] = "Reviewed"

----------------------------------------------------------------------------
(* C8 - the two preconditions *)

PreconditionFailed == Happened("warn:noConfig", 0) \/ Happened("error:notRepo", 0)

\* C8: when loadConfig returns null or checkIsRepo is false, the message is
\* the last thing changesCommand does: it has returned, git.status was not
\* called, no entry exists, no diff or remote call was made, and no summary
\* is printed.
C8_PreconditionHalts ==
    PreconditionFailed =>
        /\ pc = "done"
        /\ pending = { }
        /\ trace[Len(trace)].k \in { "warn:noConfig", "error:notRepo" }
        /\ ~Happened("call:status", 0)
        /\ NumFiles = 0
        /\ \A p \in 1..Len(trace) : trace[p].k \notin { "call:diff", "call:remote" }
        /\ ~summary.printed
        /\ Happened("warn:noConfig", 0) => ~Happened("call:checkIsRepo", 0)

\* A configuration was found and the directory is no git repository.
C8_Witness ==
    /\ config.found
    /\ Happened("error:notRepo", 0)
    /\ pc = "done"

----------------------------------------------------------------------------
(* C9 - no exception escapes *)

\* The line the code prints when the event at position p of the trace is a
\* failure: the event that must follow it.
FailureIsPrinted(p) ==
    LET e == trace[p]
        printed == IF p < Len(trace) THEN trace[p + 1].k ELSE "nothing"
    IN /\ e.k \in { "rejected:checkIsRepo", "rejected:status" } => printed = "error:reviewing"
       /\ e.k = "rejected:diff" => printed = "error:processing"
       /\ e.k = "rejected:remote" => printed = "console.error:api"
       /\ (e.k = "resolved:remote" /\ e.m = "nonString") => printed = "error:processing"

\* C9: the promise of changesCommand never rejects, whatever loadConfig,
\* checkIsRepo, git.status, git.diff, the remote call and the rendering do,
\* and every failure is followed by a printed warning or error.
C9_NoExceptionEscapes ==
    /\ pc # "rejected"
    /\ \A p \in 1..Len(trace) : FailureIsPrinted(p)
    /\ ~config.found /\ pc # "loadConfig" => Happened("warn:noConfig", 0)

\* A run that was ended by git.status rejecting.
C9_Witness ==
    /\ pc = "done"
    /\ Happened("rejected:status", 0)
    /\ Happened("error:reviewing", 0)

----------------------------------------------------------------------------
(* C10 - the model identifier reported *)

\* C10: the model identifier printed in the header and in the summary is the
\* one every remote request of the run was made for.
C10_PrintedModelIsUsed ==
    \A p \in 1..Len(trace) :
        trace[p].k = "call:remote" =>
            /\ \A q \in At("usingModel", 0) : trace[q].m = trace[p].m
            /\ summary.printed => summary.model = trace[p].m

----------------------------------------------------------------------------
(* C11 - the list of changed files *)

\* C11: the list built from the status (changes.js:42-46) holds no path twice,
\* whatever overlap there is between the modified, created and renamed lists,
\* and so no path is diffed more than once in a run.
C11_NoDuplicatePaths ==
    /\ \A i, j \in Files : changedFiles[i] = changedFiles[j] => i = j
    /\ \A p, q \in 1..Len(trace) :
           ( /\ trace[p].k = "call:diff"
             /\ trace[q].k = "call:diff"
             /\ changedFiles[trace[p].f] = changedFiles[trace[q].f] ) => p = q

----------------------------------------------------------------------------
(* Texts *)

\* A JavaScript string is modelled as the sequence of its characters, each a
\* one-character string.  Chars turns a literal of the source into that form.
Chars(str) == [ i \in 1..Len(str) |-> SubSeq(str, i, i) ]

\* Characters of the source outside ASCII, each one element of a text.
WarningSign == "<U+26A0 U+FE0F>"
HeavyBar == "<U+2501>"

\* The backtick, which a literal of this language cannot hold.
Backtick == "<U+0060>"

Fence == << Backtick, Backtick, Backtick >>

\* Number.prototype.toString in `${n}` for a natural number.
RECURSIVE ToDigits(_)
ToDigits(n) ==
    IF n < 10 THEN SubSeq(Chars("0123456789"), n + 1, n + 1)
    ELSE ToDigits(n \div 10) \o SubSeq(Chars("0123456789"), (n % 10) + 1, (n % 10) + 1)

\* The positions of the character ch in s.
PositionsOf(s, ch) == { k \in 1..Len(s) : s[k] = ch }

\* String.prototype.split with a one-character separator: the pieces between
\* consecutive separators, one more than there are separators.
Split(s, sep) ==
    LET at == PositionsOf(s, sep)
        nth(k) == CHOOSE p \in at : Cardinality({ q \in at : q <= p }) = k
        first(k) == IF k = 1 THEN 1 ELSE nth(k - 1) + 1
        last(k) == IF k = Cardinality(at) + 1 THEN Len(s) ELSE nth(k) - 1
    IN [ k \in 1..(Cardinality(at) + 1) |-> SubSeq(s, first(k), last(k)) ]

\* String.prototype.startsWith and String.prototype.includes.
StartsWith(s, prefix) ==
    /\ Len(prefix) <= Len(s)
    /\ SubSeq(s, 1, Len(prefix)) = prefix

Includes(s, part) ==
    \E k \in 1..(Len(s) - Len(part) + 1) : SubSeq(s, k, k + Len(part) - 1) = part

\* The concatenation of the texts of a sequence, in order.
RECURSIVE Concat(_)
Concat(ts) == IF ts = << >> THEN << >> ELSE Head(ts) \o Concat(Tail(ts))

----------------------------------------------------------------------------
(* reviewCode (version.js:64-205) *)

\* version.js:69-84, reported with the line count mistaken for the length.
FallbackMessage_lengthTwice(codeContent) ==
    Chars("\n") \o << WarningSign >> \o Chars(" No Gemini API key found\n\nSummary:\nThe code contains approximately ")
    \o ToDigits(Len(codeContent)) \o Chars(" lines with ")
    \o ToDigits(Len(codeContent)) \o Chars(" characters.\n")

\* version.js:69-84: the text returned when there is no API key.
FallbackMessage(codeContent) ==
    Chars("\n")
    \o << WarningSign >> \o Chars(" No Gemini API key found\n")
    \o Chars("\n")
    \o Chars("Please add your Gemini API key to CR.json or set it as an environment variable (GEMINI_API_KEY).\n")
    \o Chars("You can get a Gemini API key from https://ai.google.dev/\n")
    \o Chars("\n")
    \o Chars("For now, here's a basic analysis:\n")
    \o Chars("\n")
    \o Chars("Summary:\n")
    \o Chars("The code contains approximately ") \o ToDigits(Len(Split(codeContent, "\n")))
    \o Chars(" lines with ") \o ToDigits(Len(codeContent)) \o Chars(" characters.\n")
    \o Chars("\n")
    \o Chars("Recommendation:\n")
    \o Chars("To get a detailed code review, please configure your Gemini API key using:\n")
    \o Chars("- Add it to CR.json file\n")
    \o Chars("- Or set the GEMINI_API_KEY environment variable\n")

\* version.js:190-203: the text returned when the call of the API threw.
ErrorMessage(message) ==
    Chars("\n")
    \o Chars("Error reviewing code\n")
    \o Chars("\n")
    \o Chars("Summary:\n")
    \o Chars("An error occurred while trying to review the code with the Gemini API.\n")
    \o Chars("\n")
    \o Chars("Details:\n")
    \o message \o Chars("\n")
    \o Chars("\n")
    \o Chars("Recommendation:\n")
    \o Chars("- Check your internet connection\n")
    \o Chars("- Verify your API key is correct\n")
    \o Chars("- Try again later or use a different model\n")

\* version.js:91: the instruction of the configuration, else its prompt, else
\* the built-in one (an absent or empty field is the empty text).
DefaultInstruction == Chars("Review this code for bugs, security issues, and best practices.")

Instruction(cfg) ==
    IF cfg.instruction # << >> THEN cfg.instruction
    ELSE IF cfg.prompt # << >> THEN cfg.prompt
    ELSE DefaultInstruction

\* version.js:96-102: the rules of the configuration as a bullet list.
RulesBlock(rules) ==
    IF Len(rules) > 0
    THEN Chars("Please check for the following:\n")
         \o Concat([ k \in 1..Len(rules) |-> Chars("- ") \o rules[k] \o Chars("\n") ])
         \o Chars("\n")
    ELSE << >>

\* The two delimiters the instruction reserves (version.js:124 and :161).
ReservedBlockStart ==
    << HeavyBar, HeavyBar, HeavyBar, HeavyBar >> \o Chars(" Code Block ")
    \o << HeavyBar, HeavyBar, HeavyBar, HeavyBar >>

ReservedBlockEnd ==
    << HeavyBar, HeavyBar, HeavyBar, HeavyBar >> \o Chars(" End Code Block ")
    \o << HeavyBar, HeavyBar, HeavyBar, HeavyBar >>

\* version.js:117-124 and 154-161: the IMPORTANT block, whose fifth bullet
\* differs between the two modes.
ImportantBlock(fifth) ==
    Chars("IMPORTANT:\n")
    \o Chars("- DO NOT use any asterisks (*) or markdown formatting in your response.\n")
    \o Chars("- DO NOT use **, *, or any other markdown syntax. Use plain text only.\n")
    \o Chars("- For bullet points, use - instead of *. For emphasis, use ALL CAPS instead of asterisks.\n")
    \o Chars("- ALWAYS use the EXACT section headers listed above (in ALL CAPS followed by a colon).\n")
    \o fifth
    \o Chars("- IMPORTANT: Do not use lines that start or end with \"") \o ReservedBlockStart
    \o Chars("\" or \"") \o ReservedBlockEnd \o Chars("\" as these are reserved for formatting.\n")

\* version.js:107-125: the format instructions of light review mode.
LightReviewFormat ==
    Chars("\n")
    \o Chars("Please provide a focused code review with ONLY these two sections:\n")
    \o Chars("\n")
    \o Chars("ISSUES:\n")
    \o Chars("List any issues, bugs, or errors found in the code (if any)\n")
    \o Chars("\n")
    \o Chars("BEST PRACTICES:\n")
    \o Chars("Note any best practices that should be followed or improvements that could be made\n")
    \o Chars("\n")
    \o Chars("Include code examples where appropriate using triple backticks.\n")
    \o Chars("\n")
    \o ImportantBlock(Chars("- If a section doesn't apply (e.g., no issues found), still include the header but note \"No issues found.\"\n"))

\* version.js:128-162: the format instructions of full review mode.
FullReviewFormat ==
    Chars("\n")
    \o Chars("Please format your response with clear section headers for better readability.\n")
    \o Chars("Use the following structure with EXACTLY these section headers:\n")
    \o Chars("\n")
    \o Chars("SUMMARY:\n")
    \o Chars("A brief summary of the changes\n")
    \o Chars("\n")
    \o Chars("ISSUES:\n")
    \o Chars("List any issues or bugs found (if any)\n")
    \o Chars("\n")
    \o Chars("SUGGESTIONS:\n")
    \o Chars("Provide suggestions for improvements (if any)\n")
    \o Chars("\n")
    \o Chars("BEST PRACTICES:\n")
    \o Chars("Note any best practices that should be followed\n")
    \o Chars("\n")
    \o Chars("SECURITY:\n")
    \o Chars("Mention any security concerns (if applicable)\n")
    \o Chars("\n")
    \o Chars("PERFORMANCE:\n")
    \o Chars("Note any performance considerations (if applicable)\n")
    \o Chars("\n")
    \o Chars("CONCLUSION:\n")
    \o Chars("A brief conclusion\n")
    \o Chars("\n")
    \o Chars("Include code examples where appropriate using triple backticks.\n")
    \o Chars("\n")
    \o ImportantBlock(Chars("- If a section doesn't apply, you can skip it entirely.\n"))

\* version.js:105-163 with the mode ignored.
FormatInstructions_alwaysFull(light_review) == FullReviewFormat

FormatInstructions_alwaysLight(light_review) == LightReviewFormat

\* version.js:105-163: the branch on config.light_review.
FormatInstructions(light_review) ==
    IF light_review THEN LightReviewFormat ELSE FullReviewFormat

\* version.js:94-171: the instruction sent to the API.
FullInstruction(codeContent, cfg) ==
    Instruction(cfg) \o Chars("\n\n")
    \o RulesBlock(cfg.rules)
    \o FormatInstructions(cfg.light_review)
    \o Chars("\n")
    \o Chars("Here is the code diff to review:\n")
    \o Chars("\n")
    \o Fence \o Chars("\n")
    \o codeContent \o Chars("\n")
    \o Fence \o Chars("\n")

\* Largest number of rules in a configuration.
MaxRules == 2

RuleTexts == { Chars("No console.log"), Chars("Use const") }

RuleLists == UNION { [ 1..n -> RuleTexts ] : n \in 0..MaxRules }

\* The configurations reviewCode is called with.
ReviewConfigs ==
    [ gemini_api_key : { "", "key" },
      model_name : { "", "gpt-4" },
      instruction : { << >>, Chars("Check the naming.") },
      prompt : { << >>, Chars("Look for security holes.") },
      rules : RuleLists,
      light_review : BOOLEAN ]

\* The diffs reviewCode is called with.
CodeContents == DiffTexts \cup { Chars("@@ -1 +1,2 @@\n-x\n+y\n+z\n") }

\* The text of a response of the API.
ResponseText(value) ==
    IF value = "text" THEN Chars("ISSUES:\nNo issues found.\n") ELSE << >>

NoRequest == [ sent |-> FALSE, apiKey |-> "", instruction |-> << >>, modelName |-> "" ]

NoResult == [ kind |-> "none", text |-> << >> ]

\* The pipeline is not running while a single function is followed.
PipelineIdle ==
    /\ pc = "none"
    /\ envKey = ""
    /\ config = NoConfig
    /\ changedFiles = << >>
    /\ idx = 0
    /\ state = << >>
    /\ reviewedCount = 0
    /\ skippedCount = 0
    /\ pending = { }
    /\ trace = << >>
    /\ summary = NoSummary

pipelineVars == << pc, envKey, config, changedFiles, idx, state, reviewedCount,
                   skippedCount, pending, trace, summary >>

InitReviewCode ==
    /\ PipelineIdle
    /\ calc \in [ fn : { "reviewCode" }, at : { "called" },
                  codeContent : CodeContents, config : ReviewConfigs,
                  env : { "", "envkey" },
                  request : { NoRequest }, result : { NoResult } ]

\* version.js:64-186: reviewCode up to its first await.
ReviewCodeEnter ==
    /\ calc.fn = "reviewCode"
    /\ calc.at = "called"
    /\ LET apiKey == ApiKey(calc.config, calc.env) IN
       IF apiKey = ""
       THEN calc' = [ calc EXCEPT !.at = "returned",
                        !.result = [ kind |-> ReviewCodeResult(FALSE, NoResult),
                                     text |-> FallbackMessage(calc.codeContent) ] ]
       ELSE calc' = [ calc EXCEPT !.at = "awaiting",
                        !.request = [ sent |-> TRUE, apiKey |-> apiKey,
                                      instruction |-> FullInstruction(calc.codeContent, calc.config),
                                      modelName |-> RequestModel(calc.config) ] ]
    /\ UNCHANGED pipelineVars

\* version.js:186-204: callGeminiAPI settles and reviewCode returns.
ReviewCodeResume ==
    /\ calc.fn = "reviewCode"
    /\ calc.at = "awaiting"
    /\ \E o \in RemoteOutcomes :
           calc' = [ calc EXCEPT !.at = "returned",
                       !.result = [ kind |-> ReviewCodeResult(TRUE, o),
                                    text |-> IF o.ok THEN ResponseText(o.value)
                                             ELSE ErrorMessage(Chars(o.value)) ] ]
    /\ UNCHANGED pipelineVars

NextReviewCode == ReviewCodeEnter \/ ReviewCodeResume

SpecReviewCode == InitReviewCode /\ [][NextReviewCode]_vars

----------------------------------------------------------------------------
(* C12 - no API key *)

\* C12: without an API key in the configuration and in the environment,
\* reviewCode sends no request and returns the fallback text, which states the
\* number of lines and the number of characters of the diff it was given; the
\* loop treats that text as a review (it is rendered and counted).
C12_FallbackWithoutKey ==
    ( calc.fn = "reviewCode" /\ calc.config.gemini_api_key = "" /\ calc.env = "" ) =>
        /\ calc.at # "awaiting"
        /\ ~calc.request.sent
        /\ calc.at = "returned" =>
            /\ calc.result.kind = "fallback"
            /\ ~RenderThrows(calc.result.kind)
            /\ StartsWith(calc.result.text,
                          Chars("\n") \o << WarningSign >> \o Chars(" No Gemini API key found\n"))
            /\ Includes(calc.result.text,
                        Chars("approximately ")
                        \o ToDigits(Cardinality(PositionsOf(calc.codeContent, "\n")) + 1)
                        \o Chars(" lines with ")
                        \o ToDigits(Len(calc.codeContent)) \o Chars(" characters."))

C12_Witness ==
    /\ calc.fn = "reviewCode"
    /\ calc.config.gemini_api_key = ""
    /\ calc.env = ""
    /\ calc.at = "returned"
    /\ Cardinality(PositionsOf(calc.codeContent, "\n")) = 4

----------------------------------------------------------------------------
(* formatAndDisplayReview (changes.js:139-260) *)

UpperLetters == Chars("ABCDEFGHIJKLMNOPQRSTUVWXYZ")
LowerLetters == Chars("abcdefghijklmnopqrstuvwxyz")

\* The character classes of the regular expressions: [A-Z], [A-Za-z], \w, \s
\* and the line terminators that . does not match and ^ follows.
UpperCase == { UpperLetters[k] : k \in 1..Len(UpperLetters) }
Letters == UpperCase \cup { LowerLetters[k] : k \in 1..Len(LowerLetters) }
WordChars == Letters \cup { Chars("0123456789")[k] : k \in 1..10 } \cup { "_" }
WhiteSpace == { " ", "\n", "\t", "\r" }
LineTerminators == { "\n", "\r" }

\* String.prototype.toLowerCase on one character.
ToLowerCase(ch) ==
    IF ch \in UpperCase
    THEN LowerLetters[CHOOSE k \in 1..Len(UpperLetters) : UpperLetters[k] = ch]
    ELSE ch

Min(S) == CHOOSE k \in S : \A m \in S : k <= m
Max(S) == CHOOSE k \in S : \A m \in S : k >= m

\* ^ under the m flag: the start of the text or the position after a line
\* terminator.
AtLineStart(s, k) == k = 1 \/ s[k - 1] \in LineTerminators

\* The last position of the longest run of characters of a class that starts
\* at k (k - 1 when s[k] is not of the class): a greedy X* or X+.
RunEnd(s, k, class) ==
    CHOOSE e \in (k - 1)..Len(s) :
        /\ \A m \in k..e : s[m] \in class
        /\ e = Len(s) \/ s[e + 1] \notin class

\* (\*\*|__)(.*?)\1 and (\*|_)(.*?)\1 with a delimiter of w characters: the
\* nearest repetition of the delimiter on the same line closes it.
EmphasisEnd(s, k, w) ==
    IF /\ k + w - 1 <= Len(s)
       /\ s[k] \in { "*", "_" }
       /\ \A m \in k..(k + w - 1) : s[m] = s[k]
    THEN LET closes == { j \in (k + w)..(Len(s) - w + 1) :
                            /\ \A m \in j..(j + w - 1) : s[m] = s[k]
                            /\ \A m \in (k + w)..(j - 1) : s[m] \notin LineTerminators }
         IN IF closes = { } THEN 0 ELSE Min(closes) + w - 1
    ELSE 0

BoldEnd(s, k) == EmphasisEnd(s, k, 2)
BoldText(s, k, e) == SubSeq(s, k + 2, e - 2)

ItalicEnd(s, k) == EmphasisEnd(s, k, 1)

\* The italic replacement with only the closing marker removed.
ItalicText_keepOpening(s, k, e) == SubSeq(s, k, e - 1)

ItalicText(s, k, e) == SubSeq(s, k + 1, e - 1)

\* ^#+\s+ under the m flag.
HeadingEnd(s, k) ==
    IF AtLineStart(s, k) /\ s[k] = "#"
    THEN LET hashes == RunEnd(s, k, { "#" })
             spaces == RunEnd(s, hashes + 1, WhiteSpace)
         IN IF spaces > hashes THEN spaces ELSE 0
    ELSE 0

\* chalk's escape sequences, each one element of a text: a style is the chain
\* of its stylers, outermost first.
AnsiGray == [ open |-> "<ESC[90m>", close |-> "<ESC[39m>" ]
AnsiMagenta == [ open |-> "<ESC[35m>", close |-> "<ESC[39m>" ]
AnsiGreen == [ open |-> "<ESC[32m>", close |-> "<ESC[39m>" ]
AnsiRed == [ open |-> "<ESC[31m>", close |-> "<ESC[39m>" ]
AnsiCyan == [ open |-> "<ESC[36m>", close |-> "<ESC[39m>" ]
AnsiBold == [ open |-> "<ESC[1m>", close |-> "<ESC[22m>" ]

AnsiCodes ==
    UNION { { c.open, c.close } :
            c \in { AnsiGray, AnsiMagenta, AnsiGreen, AnsiRed, AnsiCyan, AnsiBold } }

\* display.js:19, :31, :34, :35, :56 and the .bold of changes.js:234-240.
styles ==
    [ dim |-> << AnsiGray >>,
      code |-> << AnsiMagenta >>,
      reviewSummaryBold |-> << AnsiGreen, AnsiBold >>,
      reviewIssueBold |-> << AnsiRed, AnsiBold >>,
      sectionTitleBold |-> << AnsiCyan, AnsiBold >> ]

\* chalk applied to a string (display.js:1): nothing without colour support or
\* for the empty string; otherwise the opening codes, the string with every
\* closing code of the style turned into its opening code and the style
\* closed and reopened around every line feed, and the closing codes.
ApplyStyle(style, str, ansi) ==
    IF ~ansi \/ str = << >> THEN str
    ELSE LET openAll == [ i \in 1..Len(style) |-> style[i].open ]
             closeAll == [ i \in 1..Len(style) |-> style[Len(style) + 1 - i].close ]
             reopen(a) == IF \E i \in 1..Len(style) : style[i].close = a
                          THEN style[CHOOSE i \in 1..Len(style) : style[i].close = a].open
                          ELSE a
         IN openAll
            \o Concat([ k \in 1..Len(str) |->
                          IF str[k] = "\n" THEN closeAll \o << "\n" >> \o openAll
                          ELSE << reopen(str[k]) >> ])
            \o closeAll

\* The text with chalk's escape sequences taken out.
StripStyles(s) == SelectSeq(s, LAMBDA a : a \notin AnsiCodes)

\* ```([\w]*)\n([\s\S]*?)``` : the opening fence, the language tag, a line
\* feed, and the first closing fence after it.
IsFence(s, k) == k + 2 <= Len(s) /\ \A m \in k..(k + 2) : s[m] = Backtick

CodeBlockEnd(s, k) ==
    IF IsFence(s, k)
    THEN LET tag == RunEnd(s, k + 3, WordChars)
             closes == { j \in (tag + 2)..Len(s) : IsFence(s, j) }
         IN IF tag + 1 <= Len(s) /\ s[tag + 1] = "\n" /\ closes # { }
            THEN Min(closes) + 2
            ELSE 0
    ELSE 0

\* The start marker without the language.
BlockStartMarker_unlabelled(language) == Chars("--- Code Block ---")

\* changes.js:178 and :196: the two marker lines.
BlockStartMarker(language) ==
    Chars("--- Code Block")
    \o (IF language # << >> THEN Chars(" (") \o language \o Chars(")") ELSE << >>)
    \o Chars(" ---")

BlockEndMarker == Chars("--- End Code Block ---")

\* changes.js:187  code.split('\n')
CodeLines(code) == Split(code, "\n")

\* changes.js:169-202: what one code block becomes.
CodeBlock(s, k, e, useColors, ansi) ==
    LET tag == RunEnd(s, k + 3, WordChars)
        language == SubSeq(s, k + 3, tag)
        code == SubSeq(s, tag + 2, e - 3)
        codeLines == CodeLines(code)
        paint(style, str) == IF useColors THEN ApplyStyle(style, str, ansi) ELSE str
    IN Chars("\n")
       \o paint(styles.dim, BlockStartMarker(language))
       \o Chars("\n")
       \o Concat([ n \in 1..Len(codeLines) |-> paint(styles.code, codeLines[n]) \o Chars("\n") ])
       \o paint(styles.dim, BlockEndMarker)
       \o Chars("\n")

\* `([^`]+)` : a backtick, one or more other characters, a backtick.
InlineCodeEnd(s, k) ==
    IF s[k] = Backtick /\ k + 1 <= Len(s) /\ s[k + 1] # Backtick
    THEN LET closes == { j \in (k + 2)..Len(s) : s[j] = Backtick }
         IN IF closes = { } THEN 0 ELSE Min(closes)
    ELSE 0

\* ^\s*\* under the m flag.
BulletEnd(s, k) ==
    IF AtLineStart(s, k)
    THEN LET spaces == RunEnd(s, k, WhiteSpace)
         IN IF spaces + 1 <= Len(s) /\ s[spaces + 1] = "*" THEN spaces + 1 ELSE 0
    ELSE 0

\* \b after position e: one of s[e], s[e + 1] is a word character and the
\* other is not (or is beyond the text).
WordBoundaryAfter(s, e) ==
    (e >= 1 /\ s[e] \in WordChars) # (e + 1 <= Len(s) /\ s[e + 1] \in WordChars)

\* ^([A-Z][A-Za-z\s]+:|\b[A-Z]{2,}[A-Z\s]+\b) under the m flag.  First
\* alternative: a capital, the longest run of letters and white space, a
\* colon.  Second: two or more capitals, then capitals and white space up to
\* the last word boundary, giving back one capital if there is no other way.
HeaderEnd(s, k) ==
    IF AtLineStart(s, k) /\ s[k] \in UpperCase
    THEN LET run == RunEnd(s, k + 1, Letters \cup WhiteSpace)
             caps == RunEnd(s, k, UpperCase)
             more == RunEnd(s, caps + 1, UpperCase \cup WhiteSpace)
             ends == { e \in (caps + 1)..more : WordBoundaryAfter(s, e) }
         IN IF run > k /\ run + 1 <= Len(s) /\ s[run + 1] = ":" THEN run + 1
            ELSE IF caps - k + 1 >= 2 /\ ends # { } THEN Max(ends)
            ELSE IF caps - k + 1 >= 3 /\ WordBoundaryAfter(s, caps) THEN caps
            ELSE 0
    ELSE 0

\* The words for issues tried before the words for a summary.
HeaderStyle_issueFirst(header) ==
    LET lowerHeader == [ k \in 1..Len(header) |-> ToLowerCase(header[k]) ] IN
    IF \/ Includes(lowerHeader, Chars("issue"))
       \/ Includes(lowerHeader, Chars("bug"))
       \/ Includes(lowerHeader, Chars("error"))
    THEN styles.reviewIssueBold
    ELSE IF Includes(lowerHeader, Chars("summary")) \/ Includes(lowerHeader, Chars("overview"))
    THEN styles.reviewSummaryBold
    ELSE styles.sectionTitleBold

\* changes.js:230-241: the style of a header by the words it contains.
HeaderStyle(header) ==
    LET lowerHeader == [ k \in 1..Len(header) |-> ToLowerCase(header[k]) ] IN
    IF Includes(lowerHeader, Chars("summary")) \/ Includes(lowerHeader, Chars("overview"))
    THEN styles.reviewSummaryBold
    ELSE IF \/ Includes(lowerHeader, Chars("issue"))
            \/ Includes(lowerHeader, Chars("bug"))
            \/ Includes(lowerHeader, Chars("error"))
    THEN styles.reviewIssueBold
    ELSE styles.sectionTitleBold

\* changes.js:148: the texts that are printed as they are.
IsMessage_never(review) == FALSE

IsMessage(review) ==
    \/ StartsWith(review, Chars("Error reviewing code:"))
    \/ StartsWith(review, << WarningSign >> \o Chars(" No Gemini API key found"))

\* The last position of the match of a pattern that starts at k, or 0.
MatchEnd(pattern, s, k) ==
    CASE pattern = "bold" -> BoldEnd(s, k)
      [] pattern = "italic" -> ItalicEnd(s, k)
      [] pattern = "heading" -> HeadingEnd(s, k)
      [] pattern = "codeBlock" -> CodeBlockEnd(s, k)
      [] pattern = "inlineCode" -> InlineCodeEnd(s, k)
      [] pattern = "bullet" -> BulletEnd(s, k)
      [] pattern = "header" -> HeaderEnd(s, k)

\* What replaces the match of a pattern at k..e (changes.js:157-159, 169-202,
\* 213-215, 219, 229-241).
Replacement(pattern, s, k, e, useColors, ansi) ==
    CASE pattern = "bold" -> BoldText(s, k, e)
      [] pattern = "italic" -> ItalicText(s, k, e)
      [] pattern = "heading" -> << >>
      [] pattern = "codeBlock" -> CodeBlock(s, k, e, useColors, ansi)
      [] pattern = "inlineCode" ->
            IF useColors THEN ApplyStyle(styles.code, SubSeq(s, k + 1, e - 1), ansi)
            ELSE SubSeq(s, k + 1, e - 1)
      [] pattern = "bullet" -> << "-" >>
      [] pattern = "header" ->
            ApplyStyle(HeaderStyle(SubSeq(s, k, e)), SubSeq(s, k, e), ansi)

\* String.prototype.replace with a g-flagged pattern, and the exec loop of
\* changes.js:167-209: the matches are taken left to right, each search
\* starting after the previous match, and the text between them is kept.
RECURSIVE ReplaceAll(_, _, _, _, _)
ReplaceAll(s, from, pattern, useColors, ansi) ==
    LET starts == { k \in from..Len(s) : MatchEnd(pattern, s, k) # 0 } IN
    IF starts = { }
    THEN SubSeq(s, from, Len(s))
    ELSE LET k == Min(starts)
             e == MatchEnd(pattern, s, k)
         IN SubSeq(s, from, k - 1)
            \o Replacement(pattern, s, k, e, useColors, ansi)
            \o ReplaceAll(s, e + 1, pattern, useColors, ansi)

\* changes.js:157-159: the three replacements that give cleanedReview.
CleanUp(review) ==
    ReplaceAll(ReplaceAll(ReplaceAll(review, 1, "bold", FALSE, FALSE),
                          1, "italic", FALSE, FALSE),
               1, "heading", FALSE, FALSE)

\* changes.js:222 left out.
RemoveAsterisks_none(s) == s

\* changes.js:222  replace(/\*/g, '')
RemoveAsterisks(s) == SelectSeq(s, LAMBDA c : c # "*")

\* changes.js:153-222: processedReview before the headers are looked for.
BeforeHeaders(review, useColors, ansi) ==
    LET blocks == ReplaceAll(CleanUp(review), 1, "codeBlock", useColors, ansi)
        inlines == ReplaceAll(blocks, 1, "inlineCode", useColors, ansi)
        bullets == ReplaceAll(inlines, 1, "bullet", useColors, ansi)
    IN RemoveAsterisks(bullets)

\* changes.js:225-242: the headers are styled only if useColors.
ProcessedReview(review, useColors, ansi) ==
    LET plain == BeforeHeaders(review, useColors, ansi)
    IN IF useColors THEN ReplaceAll(plain, 1, "header", useColors, ansi) ELSE plain

\* '─'.repeat(process.stdout.columns || 80), one element of a text.
Divider == << "<U+2500 repeated>" >>

\* changes.js:141  config.use_colors !== false
UseColors(use_colors) == use_colors # "false"

\* formatAndDisplayReview: the arguments of its console.log calls, in order.
FormatAndDisplayReview(review, use_colors, ansi) ==
    LET useColors == UseColors(use_colors)
        divider == IF useColors THEN ApplyStyle(styles.dim, Divider, ansi) ELSE Divider
    IN IF review = << >> THEN << Chars("No review generated.") >>
       ELSE IF IsMessage(review) THEN << review >>
       ELSE << divider,
               Chars("\n") \o ProcessedReview(review, useColors, ansi) \o Chars("\n"),
               divider >>

\* Largest length of the review texts taken over the whole alphabet.
MaxTextLen == 3

\* One character of every kind the patterns tell apart.
Alphabet == { "*", "_", "#", Backtick, "\n", " ", "a", "A", ":" }

ShortTexts == UNION { [ 1..n -> Alphabet ] : n \in 0..MaxTextLen }

\* A fenced block with a language tag and the given lines of code, as the API
\* sends it: every line, the last one too, ends with a line feed.
FencedBlock(language, lines) ==
    Fence \o language \o Chars("\n")
    \o Concat([ n \in 1..Len(lines) |-> lines[n] \o Chars("\n") ])
    \o Fence

\* The blocks of the sample reviews: language tag and lines of code.
SampleBlocks ==
    { [ language |-> Chars("js"), lines |-> << Chars("console.log(1)") >> ],
      [ language |-> << >>, lines |-> << Chars("a = 1"), Chars("b = 2") >> ],
      [ language |-> Chars("py"), lines |-> << Chars("x = y"), << >>, Chars("return x") >> ],
      [ language |-> Chars("js"), lines |-> << Chars("/**"), Chars(" * Adds."), Chars(" */") >> ] }

\* Longer reviews: fenced blocks alone and inside prose, an identifier with
\* underscores, and a bullet list after a blank line.
SampleTexts ==
    { FencedBlock(b.language, b.lines) : b \in SampleBlocks }
    \cup { Chars("See:\n") \o FencedBlock(b.language, b.lines) \o Chars("\nDone.") : b \in SampleBlocks }
    \cup { Chars("Rename max_retry_count."),
           Chars("ISSUES:\n\n  * first\n  * second\n"),
           Chars("## Summary\nUses **bold** and *italic*.\n"),
           Chars("* multiply a * b"),
           Chars("Intro:\n\n* item"),
           Chars("Summary of issues:\nNone."),
           Chars("Bug fixes:\nok"),
           Chars("Notes:\nok"),
           Chars("Before\n") \o FencedBlock(Chars("js"), << Chars("console.log(1)") >>)
               \o Chars("\nuse ") \o << Backtick, "x", Backtick >> \o Chars(" here") }

\* The texts formatAndDisplayReview is called with: short texts over the
\* alphabet, the same after each of the two prefixes of changes.js:148, the
\* samples, and what reviewCode returns.
ReviewTexts ==
    ShortTexts
    \cup { Chars("Error reviewing code:") \o t : t \in ShortTexts }
    \cup { << WarningSign >> \o Chars(" No Gemini API key found") \o t : t \in ShortTexts }
    \cup SampleTexts
    \cup { FallbackMessage(d) : d \in CodeContents }
    \cup { ErrorMessage(Chars("rate limited")), ResponseText("text") }

InitRender ==
    /\ PipelineIdle
    /\ calc \in [ fn : { "formatAndDisplayReview" }, at : { "called" },
                  review : ReviewTexts,
                  use_colors : { "absent", "true", "false" },
                  ansi : BOOLEAN,
                  logged : { << >> } ]

\* changes.js:139-260: one call of formatAndDisplayReview.
FormatAndDisplay ==
    /\ calc.fn = "formatAndDisplayReview"
    /\ calc.at = "called"
    /\ calc' = [ calc EXCEPT !.at = "returned",
                   !.logged = FormatAndDisplayReview(calc.review, calc.use_colors, calc.ansi) ]
    /\ UNCHANGED pipelineVars

NextRender == FormatAndDisplay

SpecRender == InitRender /\ [][NextRender]_vars

----------------------------------------------------------------------------
(* C13 - the fallback text in the renderer *)

\* C13: the text reviewCode returns without an API key is printed by
\* formatAndDisplayReview exactly as it is, with colours on and off: one
\* console.log of the text and nothing else.
C13_FallbackPrintedUnchanged ==
    ( /\ calc.fn = "formatAndDisplayReview"
      /\ calc.at = "returned"
      /\ \E d \in CodeContents : calc.review = FallbackMessage(d) ) =>
        calc.logged = << calc.review >>

----------------------------------------------------------------------------
(* C14 - the texts that bypass the transforms *)

ErrorPrefix == Chars("Error reviewing code:")
NoKeyPrefix == << WarningSign >> \o Chars(" No Gemini API key found")

\* C14 as stated: a review text that is empty, or begins with "Error reviewing
\* code:" or with the no-key prefix, is what gets printed, unmodified.
C14_PassThroughUnmodified ==
    ( /\ calc.fn = "formatAndDisplayReview"
      /\ calc.at = "returned"
      /\ \/ calc.review = << >>
         \/ StartsWith(calc.review, ErrorPrefix)
         \/ StartsWith(calc.review, NoKeyPrefix) ) =>
        calc.logged = << calc.review >>

\* C14 amended: a review text that begins with "Error reviewing code:" or with
\* the no-key prefix is printed unmodified and alone; for the empty text the
\* line "No review generated." is printed instead, and no transform, marker or
\* divider is applied in either case.
C14_PassThroughOrPlaceholder ==
    ( calc.fn = "formatAndDisplayReview" /\ calc.at = "returned" ) =>
        /\ calc.review = << >> => calc.logged = << Chars("No review generated.") >>
        /\ ( StartsWith(calc.review, ErrorPrefix) \/ StartsWith(calc.review, NoKeyPrefix) ) =>
               calc.logged = << calc.review >>

C14_Witness ==
    /\ calc.fn = "formatAndDisplayReview"
    /\ calc.at = "returned"
    /\ calc.use_colors = "true"
    /\ calc.ansi
    /\ calc.review = ErrorPrefix \o << "*", "A", ":" >>
    /\ calc.logged = << calc.review >>

----------------------------------------------------------------------------
(* C15, C16, C17 - the instruction sent to the API *)

\* reviewCode is at its await exactly when the request has been sent and the
\* response is outstanding; the formulas below look at the request then.

\* The positions at which a line of the text is exactly the given line.
LinesEqualTo(text, line) ==
    { k \in 1..(Len(text) - Len(line) + 1) :
        /\ AtLineStart(text, k)
        /\ text[k] = line[1]
        /\ SubSeq(text, k, k + Len(line) - 1) = line
        /\ k + Len(line) > Len(text) \/ text[k + Len(line)] = "\n" }

LightLabels == << Chars("ISSUES:"), Chars("BEST PRACTICES:") >>

FullLabels ==
    << Chars("SUMMARY:"), Chars("ISSUES:"), Chars("SUGGESTIONS:"),
       Chars("BEST PRACTICES:"), Chars("SECURITY:"), Chars("PERFORMANCE:"),
       Chars("CONCLUSION:") >>

\* Neither the diff nor a rule of the call contains one of the labels.
LabelsOnlyFromFormat ==
    \A n \in 1..Len(FullLabels) :
        /\ ~Includes(calc.codeContent, FullLabels[n])
        /\ \A r \in 1..Len(calc.config.rules) : ~Includes(calc.config.rules[r], FullLabels[n])

\* C15: with light_review set, the instruction sent has the header lines
\* ISSUES: and BEST PRACTICES: and has none of SUMMARY:, SUGGESTIONS:,
\* SECURITY:, PERFORMANCE: and CONCLUSION: as a line, for diffs and rules that
\* do not contain the labels.
C15_LightModeHeaders ==
    ( /\ calc.fn = "reviewCode"
      /\ calc.at = "awaiting"
      /\ calc.config.light_review
      /\ LabelsOnlyFromFormat ) =>
        \A n \in 1..Len(FullLabels) :
            IF \E m \in 1..Len(LightLabels) : LightLabels[m] = FullLabels[n]
            THEN /\ LinesEqualTo(calc.request.instruction, FullLabels[n]) # { }
                 /\ Includes(calc.request.instruction, FullLabels[n])
            ELSE LinesEqualTo(calc.request.instruction, FullLabels[n]) = { }

C15_Witness ==
    /\ calc.fn = "reviewCode"
    /\ calc.at = "awaiting"
    /\ calc.config.light_review
    /\ Len(calc.config.rules) = 2
    /\ calc.codeContent # << >>

\* C16: with light_review unset or false, the instruction sent has the seven
\* header lines SUMMARY:, ISSUES:, SUGGESTIONS:, BEST PRACTICES:, SECURITY:,
\* PERFORMANCE:, CONCLUSION:, each exactly once and in that order.
C16_FullModeHeaders ==
    ( /\ calc.fn = "reviewCode"
      /\ calc.at = "awaiting"
      /\ ~calc.config.light_review
      /\ LabelsOnlyFromFormat ) =>
        LET at == [ n \in 1..Len(FullLabels) |->
                      LinesEqualTo(calc.request.instruction, FullLabels[n]) ]
        IN /\ \A n \in 1..Len(FullLabels) : Cardinality(at[n]) = 1
           /\ \A n \in 1..(Len(FullLabels) - 1) :
                  \A k \in at[n] : \A l \in at[n + 1] : k < l

C16_Witness ==
    /\ calc.fn = "reviewCode"
    /\ calc.at = "awaiting"
    /\ ~calc.config.light_review
    /\ Len(calc.config.rules) = 2
    /\ calc.codeContent # << >>

\* C17: in both modes the two delimiters the instruction tells the model not
\* to write are the two marker lines formatAndDisplayReview itself writes
\* around a code block.
C17_ReservedAreTheMarkers ==
    ( calc.fn = "reviewCode" /\ calc.at = "awaiting" ) =>
        /\ Includes(calc.request.instruction,
                    Chars("start or end with \"") \o BlockStartMarker(<< >>) \o Chars("\" or \"")
                    \o BlockEndMarker \o Chars("\""))
        /\ ReservedBlockStart = BlockStartMarker(<< >>)
        /\ ReservedBlockEnd = BlockEndMarker

----------------------------------------------------------------------------
(* C18 - colours do not change the text *)

\* C18: for every review text, what is printed with colours on is, once the
\* escape sequences are taken out, what is printed with colours off.
C18_SameTextWithoutStyling ==
    ( /\ calc.fn = "formatAndDisplayReview"
      /\ calc.at = "returned"
      /\ UseColors(calc.use_colors) ) =>
        [ n \in 1..Len(calc.logged) |-> StripStyles(calc.logged[n]) ]
            = FormatAndDisplayReview(calc.review, "false", calc.ansi)

----------------------------------------------------------------------------
(* C19 - the lines of a code block *)

\* The text between the dividers as printed, without escape sequences and
\* without the line feeds console.log is given around it (changes.js:252).
PrintedBody == StripStyles(SubSeq(calc.logged[2], 2, Len(calc.logged[2]) - 1))

\* C19: for a review that is one fenced block, the lines printed between the
\* block start marker and the block end marker are the lines between the
\* fences: as many, in the same order, with the same content.
C19_BlockLinesReproduced ==
    \A b \in SampleBlocks :
        ( /\ calc.fn = "formatAndDisplayReview"
          /\ calc.at = "returned"
          /\ calc.review = FencedBlock(b.language, b.lines) ) =>
            LET printed == Split(PrintedBody, "\n")
                first == Min({ n \in 1..Len(printed) : printed[n] = BlockStartMarker(b.language) })
                last == Min({ n \in 1..Len(printed) : printed[n] = BlockEndMarker })
            IN SubSeq(printed, first + 1, last - 1) = b.lines

----------------------------------------------------------------------------
(* C20 - rendering keeps the content *)

\* a can be obtained from b by deleting elements of b.
IsSubsequence(a, b) ==
    LET pos[i \in 0..Len(a)] ==
            IF i = 0 THEN 0
            ELSE LET later == { p \in (pos[i - 1] + 1)..Len(b) : b[p] = a[i] }
                 IN IF later = { } THEN Len(b) + 1 ELSE Min(later)
    IN pos[Len(a)] <= Len(b)

\* The position k is a space of a heading marker: on its line only # and
\* spaces come before it, starting with a #.
InHeadingMarker(text, k) ==
    /\ text[k] = " "
    /\ \E h \in 1..(k - 1) :
           /\ AtLineStart(text, h)
           /\ text[h] = "#"
           /\ \A m \in h..(k - 1) : text[m] \in { "#", " " }

\* The characters of a text that are not markup: everything but asterisks,
\* underscores, #, backticks and the spaces of a heading marker.
Content(text) ==
    LET kept == { k \in 1..Len(text) :
                    /\ text[k] \notin { "*", "_", "#", Backtick }
                    /\ ~InHeadingMarker(text, k) }
        nth(i) == CHOOSE p \in kept : Cardinality({ q \in kept : q <= p }) = i
    IN [ i \in 1..Cardinality(kept) |-> text[nth(i)] ]

\* Every underscore of the text stands between two word characters that are
\* not underscores: it is inside an identifier.
UnderscoresInIdentifiers(text) ==
    \A k \in PositionsOf(text, "_") :
        /\ 1 < k /\ k < Len(text)
        /\ text[k - 1] \in WordChars \ { "_" }
        /\ text[k + 1] \in WordChars \ { "_" }

\* C20: for every review text that is transformed, the characters that are
\* not markup appear in what is printed, in their order, blank lines and
\* leading white space included; and the underscores inside identifiers are
\* all printed.
C20_ContentKept ==
    ( /\ calc.fn = "formatAndDisplayReview"
      /\ calc.at = "returned"
      /\ calc.review \in ShortTexts \cup SampleTexts
      /\ Len(calc.logged) = 3 ) =>
        /\ IsSubsequence(Content(calc.review), PrintedBody)
        /\ UnderscoresInIdentifiers(calc.review) =>
               Cardinality(PositionsOf(PrintedBody, "_"))
                   = Cardinality(PositionsOf(calc.review, "_"))

----------------------------------------------------------------------------
(* C21 - rendering clean text twice *)

\* The text has no asterisk, no backtick (so no fence) and no # at the start
\* of a line.
IsCleanText(text) ==
    \A k \in 1..Len(text) :
        /\ text[k] \notin { "*", Backtick }
        /\ text[k] = "#" => ~AtLineStart(text, k)

----------------------------------------------------------------------------
(* C22 - bullet lines *)

\* C22: with colours off and for a text whose only markup is asterisks, the
\* printed text has as many lines as the review, and every line of the review
\* that begins with an asterisk and a space is printed as a line that begins
\* with "-" followed by the rest of the line without its asterisks.
C22_BulletLinesBecomeDashes ==
    ( /\ calc.fn = "formatAndDisplayReview"
      /\ calc.at = "returned"
      /\ calc.use_colors = "false"
      /\ Len(calc.logged) = 3
      /\ \A k \in 1..Len(calc.review) : calc.review[k] \notin { "_", "#", Backtick } ) =>
        LET given == Split(calc.review, "\n")
            printed == Split(PrintedBody, "\n")
        IN /\ Len(printed) = Len(given)
           /\ \A n \in 1..Len(given) :
                  ( Len(given[n]) >= 2 /\ given[n][1] = "*" /\ given[n][2] = " " ) =>
                      printed[n] = << "-" >> \o SelectSeq(Tail(given[n]), LAMBDA c : c # "*")

----------------------------------------------------------------------------
(* C23 - no asterisk is printed *)

\* C23: for every review text that goes through the transforms, with colours
\* on and off, nothing that is printed contains an asterisk.
C23_NoAsteriskPrinted ==
    ( /\ calc.fn = "formatAndDisplayReview"
      /\ calc.at = "returned"
      /\ Len(calc.logged) = 3 ) =>
        \A n \in 1..3 : \A k \in 1..Len(calc.logged[n]) : calc.logged[n][k] # "*"

C23_Witness ==
    /\ calc.fn = "formatAndDisplayReview"
    /\ calc.at = "returned"
    /\ calc.use_colors = "true"
    /\ calc.ansi
    /\ calc.review = << "a", "*", Backtick >>
    /\ Len(calc.logged) = 3

----------------------------------------------------------------------------
(* C24 - header styling *)

\* The style the claim gives to a header, by the words in it.
ExpectedHeaderStyle(header) ==
    LET lower == [ k \in 1..Len(header) |-> ToLowerCase(header[k]) ] IN
    CASE Includes(lower, Chars("summary")) -> styles.reviewSummaryBold
      [] ~Includes(lower, Chars("summary")) /\ Includes(lower, Chars("overview")) ->
             styles.reviewSummaryBold
      [] OTHER ->
             IF \E w \in { Chars("issue"), Chars("bug"), Chars("error") } : Includes(lower, w)
             THEN styles.reviewIssueBold
             ELSE styles.sectionTitleBold

\* The places of a text where a header begins.
HeaderStarts(text) == { k \in 1..Len(text) : HeaderEnd(text, k) > 0 }

\* C24: headers are styled only when use_colors is enabled; the styling adds
\* escape sequences around the header and changes none of the characters of
\* the text; the style of a header is the summary style if the header holds
\* "summary" or "overview", else the issue style if it holds "issue", "bug"
\* or "error", else the section style (stated for the first header of the text).
C24_HeaderStyling ==
    ( /\ calc.fn = "formatAndDisplayReview"
      /\ calc.at = "returned"
      /\ Len(calc.logged) = 3 ) =>
        LET body == SubSeq(calc.logged[2], 2, Len(calc.logged[2]) - 1)
            plain == BeforeHeaders(calc.review, UseColors(calc.use_colors), calc.ansi)
            starts == HeaderStarts(plain)
        IN /\ calc.use_colors = "false" => body = plain
           /\ StripStyles(body) = StripStyles(plain)
           /\ ( calc.use_colors # "false" /\ starts # { } ) =>
                  LET k == Min(starts)
                      header == SubSeq(plain, k, HeaderEnd(plain, k))
                  IN StartsWith(body, SubSeq(plain, 1, k - 1)
                                      \o ApplyStyle(ExpectedHeaderStyle(header), header, calc.ansi))

C24_Witness ==
    /\ calc.fn = "formatAndDisplayReview"
    /\ calc.at = "returned"
    /\ calc.use_colors = "true"
    /\ calc.ansi
    /\ calc.review = Chars("Summary of issues:\nNone.")
    /\ Len(calc.logged) = 3
    /\ StartsWith(calc.logged[2], << "\n", AnsiGreen.open, AnsiBold.open >>)

----------------------------------------------------------------------------
(* C25 - a fenced block and an inline span *)

\* The first place at or after from where part begins in text; 0 if none.
FindFrom(text, part, from) ==
    LET at == { k \in from..(Len(text) - Len(part) + 1) :
                    SubSeq(text, k, k + Len(part) - 1) = part }
    IN IF at = { } THEN 0 ELSE Min(at)

\* The parts occur in text in their order, none overlapping the one before.
RECURSIVE InOrder(_, _, _)
InOrder(text, parts, from) ==
    IF parts = << >> THEN TRUE
    ELSE LET k == FindFrom(text, Head(parts), from)
         IN k > 0 /\ InOrder(text, Tail(parts), k + Len(Head(parts)))

\* The review of the claim: text, a block tagged js with the one line
\* console.log(1), text with the span x in single backticks.
BlockThenSpan ==
    Chars("Before\n") \o FencedBlock(Chars("js"), << Chars("console.log(1)") >>)
        \o Chars("\nuse ") \o << Backtick, "x", Backtick >> \o Chars(" here")

\* C25: for a review with a block tagged js holding the line console.log(1)
\* and, later, the span x in single backticks, the printed text holds, in
\* this order, the text before the block, the start marker labelled js, the
\* line console.log(1), the end marker and the later text with x in place of
\* the span; no backtick is printed.
C25_BlockThenSpan ==
    ( /\ calc.fn = "formatAndDisplayReview"
      /\ calc.at = "returned"
      /\ calc.review = BlockThenSpan ) =>
        /\ Len(calc.logged) = 3
        /\ InOrder(PrintedBody,
                   << Chars("Before\n"),
                      Chars("--- Code Block (js) ---\n"),
                      Chars("console.log(1)\n"),
                      Chars("--- End Code Block ---\n"),
                      Chars("use x here") >>, 1)
        /\ \A k \in 1..Len(PrintedBody) : PrintedBody[k] # Backtick

C25_Witness ==
    /\ calc.fn = "formatAndDisplayReview"
    /\ calc.at = "returned"
    /\ calc.review = BlockThenSpan
    /\ calc.use_colors = "absent"
    /\ calc.ansi
    /\ Len(calc.logged) = 3

----------------------------------------------------------------------------
(* C27 - the error text in the renderer *)

\* The texts reviewCode returns when the request fails.
ErrorTexts == { ErrorMessage(Chars(o.value)) : o \in { r \in RemoteOutcomes : ~r.ok } }

\* C27: the text reviewCode returns when the request fails is printed by
\* formatAndDisplayReview as it is: one console.log of the text, no dividers
\* and no transform.
C27_ErrorTextPrintedUnchanged ==
    ( /\ calc.fn = "formatAndDisplayReview"
      /\ calc.at = "returned"
      /\ calc.review \in ErrorTexts ) =>
        calc.logged = << calc.review >>

----------------------------------------------------------------------------
(* C28 - the model of every request *)

\* C28: every remote request of a run is made for one of the three supported
\* models: the configured one if it is supported, gemini-2.0-flash if the
\* configured name is absent or unsupported; and a file whose diff is handed
\* to reviewCode with a credential gets its request whatever the name is.
C28_RequestsForSupportedModels ==
    \A p \in 1..Len(trace) :
        /\ trace[p].k = "call:remote" =>
               /\ trace[p].m \in { "gemini-2.0-flash", "gemini-1.5-flash",
                                   "gemini-2.5-flash-preview-04-17" }
               /\ trace[p].m = IF config.model_name \in { "gemini-2.0-flash", "gemini-1.5-flash",
                                                          "gemini-2.5-flash-preview-04-17" }
                               THEN config.model_name
                               ELSE "gemini-2.0-flash"
        /\ ( trace[p].k = "fileHeader" /\ ApiKey(config, envKey) # "" ) =>
               Happened("call:remote", trace[p].f)

C28_Witness ==
    /\ config # NoConfig
    /\ config.model_name = "gpt-4"
    /\ \E p \in 1..Len(trace) :
           /\ trace[p].k = "call:remote"
           /\ trace[p].m = "gemini-2.0-flash"
           /\ Happened("resolved:remote", trace[p].f)

----------------------------------------------------------------------------
(* The header of a reviewed file: changes.js:99-109 *)

\* The first place where sep begins in s; 0 if there is none.
IndexOf(s, sep) ==
    LET at == { k \in 1..(Len(s) - Len(sep) + 1) : SubSeq(s, k, k + Len(sep) - 1) = sep }
    IN IF at = { } THEN 0 ELSE Min(at)

\* String.prototype.split with a separator of one or more characters: the
\* pieces between the occurrences of sep, found from left to right.
RECURSIVE SplitOn(_, _)
SplitOn(s, sep) ==
    LET k == IndexOf(s, sep)
    IN IF k = 0 THEN << s >>
       ELSE << SubSeq(s, 1, k - 1) >> \o SplitOn(SubSeq(s, k + Len(sep), Len(s)), sep)

\* The separator of changes.js:102, '\\n' in the source: a backslash and an n.
BackslashN == << "\\", "n" >>

\* changes.js:102  `${diff.split('\\n').length} lines`
ChangesValue(diff) == ToDigits(Len(SplitOn(diff, BackslashN))) \o Chars(" lines")

MaxDiffLen == 3

\* The characters of a diff that the two counts tell apart.
DiffAlphabet == { "\n", "\\", "n", "+", "x" }

\* The diffs that reach the header: changes.js:93 has skipped the empty one.
HeaderDiffs == UNION { [ 1..n -> DiffAlphabet ] : n \in 1..MaxDiffLen }

InitFileHeader ==
    /\ PipelineIdle
    /\ calc \in [ fn : { "fileHeader" }, at : { "diffed" }, diff : HeaderDiffs,
                  changes : { << >> }, review : { << >> } ]

\* changes.js:99-103: the header of the file with its two list items.
PrintFileHeader ==
    /\ calc.fn = "fileHeader"
    /\ calc.at = "diffed"
    /\ calc' = [ calc EXCEPT !.at = "header", !.changes = ChangesValue(calc.diff) ]
    /\ UNCHANGED pipelineVars

\* changes.js:109 without an API key: reviewCode returns the fallback text
\* for the same diff.
ReviewWithoutKey ==
    /\ calc.fn = "fileHeader"
    /\ calc.at = "header"
    /\ calc' = [ calc EXCEPT !.at = "reviewed", !.review = FallbackMessage(calc.diff) ]
    /\ UNCHANGED pipelineVars

NextFileHeader == PrintFileHeader \/ ReviewWithoutKey

SpecFileHeader == InitFileHeader /\ [][NextFileHeader]_vars

----------------------------------------------------------------------------
(* C29 - the number of changed lines *)

\* C29: the value of the Changes item of a reviewed file is the number of
\* lines of its diff, the pieces between line feeds, followed by " lines";
\* the fallback text for the same diff reports the same number.
C29_ChangesIsLineCount ==
    ( calc.fn = "fileHeader" /\ calc.at # "diffed" ) =>
        LET lines == ToDigits(Len(Split(calc.diff, "\n"))) IN
        /\ calc.changes = lines \o Chars(" lines")
        /\ calc.at = "reviewed" =>
               /\ Includes(calc.review, Chars("approximately ") \o lines \o Chars(" lines with"))
               /\ Includes(calc.review, Chars("approximately ") \o calc.changes \o Chars(" with"))

----------------------------------------------------------------------------
(* integrateCommand: part_001 (src/commands/integrate.js) *)

MaxRuns == 2

EndsWith(s, suffix) ==
    /\ Len(suffix) <= Len(s)
    /\ SubSeq(s, Len(s) - Len(suffix) + 1, Len(s)) = suffix

\* A file of the working directory: absent, or present with its content.
NoFile == [ exists |-> FALSE, content |-> << >> ]

File(content) == [ exists |-> TRUE, content |-> content ]

\* integrate.js:91: the content a new hook starts with.
HookTemplate == Chars("#!/usr/bin/env sh\n. \"$(dirname -- \"$0\")/_/husky.sh\"\n\n")

\* integrate.js:107
AddedComment == Chars("# Added by cr integrate command\n")

\* integrate.js:108 and :113
CommandLine == Chars("cr changes\n")

\* The test left out: the command is added on every run.
AlreadyIntegrated_never(preCommitContent) == FALSE

\* integrate.js:96  preCommitContent.includes('cr changes')
AlreadyIntegrated(preCommitContent) == Includes(preCommitContent, Chars("cr changes"))

\* integrate.js:82-93: the content read, or the template if the read failed.
ReadHook(file) == IF file.exists THEN file.content ELSE HookTemplate

\* integrate.js:100-114: the content that is written when the command is not
\* in the hook yet.
UpdatedHook(file) ==
    LET preCommitContent == ReadHook(file) IN
    IF file.exists
    THEN (IF EndsWith(preCommitContent, Chars("\n")) THEN preCommitContent
          ELSE preCommitContent \o Chars("\n"))
         \o AddedComment \o CommandLine
    ELSE preCommitContent \o CommandLine

\* What `npx husky init` (integrate.js:56, :69) does when it succeeds, by the
\* husky that npx resolves: husky 9 sets the prepare script, creates .husky
\* and writes .husky/pre-commit with the package manager's test command;
\* husky 8 has no init command, prints its usage and exits with 0.
HuskyInits == { "precommit", "nothing" }

\* The hook husky 9 writes.
HuskyHook == Chars("npm test\n")

\* The hooks a project may have before the first run.
InitialHooks ==
    { << >>,
      Chars("npm test\n"),
      Chars("npx lint-staged"),
      Chars("cr changes\n"),
      Chars("npx eslint .\ncr changes\n"),
      HookTemplate \o CommandLine }

\* The working directory before the first run: .husky absent, or present
\* without or with a pre-commit hook.
InitialHuskyDirs ==
    { [ huskyDir |-> FALSE, hook |-> NoFile ], [ huskyDir |-> TRUE, hook |-> NoFile ] }
    \cup { [ huskyDir |-> TRUE, hook |-> File(h) ] : h \in InitialHooks }

\* package.json as far as the command looks at it: husky among the
\* dependencies (integrate.js:46) and scripts.prepare (integrate.js:134).
PackageJsons == [ husky : BOOLEAN, prepare : BOOLEAN ]

InitIntegrate ==
    /\ PipelineIdle
    /\ \E d \in InitialHuskyDirs :
        calc \in [ fn : { "integrateCommand" }, at : { "idle" },
                   isRepo : BOOLEAN, hasPackageJson : BOOLEAN,
                   packageJsonFile : PackageJsons, packageJson : { [ husky |-> FALSE, prepare |-> FALSE ] },
                   huskyDir : { d.huskyDir }, preCommit : { d.hook },
                   huskyInit : HuskyInits,
                   preCommitContent : { << >> },
                   runs : { 0 }, hookSteps : { << >> } ]

\* integrate.js:22-28: the command is run and awaits git.checkIsRepo.
IntegrateStart ==
    /\ calc.fn = "integrateCommand"
    /\ calc.at = "idle"
    /\ calc.runs < MaxRuns
    /\ calc' = [ calc EXCEPT !.at = "checkIsRepo", !.runs = @ + 1 ]
    /\ UNCHANGED pipelineVars

\* integrate.js:28-42: outside a repository or without package.json the
\* command returns; otherwise it awaits the read of package.json.
RepoChecked ==
    /\ calc.fn = "integrateCommand"
    /\ calc.at = "checkIsRepo"
    /\ calc' = [ calc EXCEPT !.at = IF calc.isRepo /\ calc.hasPackageJson
                                    THEN "readPackage" ELSE "idle" ]
    /\ UNCHANGED pipelineVars

\* The state after a successful `npx husky init`.
AfterHuskyInit(c) ==
    IF c.huskyInit = "precommit"
    THEN [ c EXCEPT !.packageJsonFile.prepare = TRUE,
                    !.huskyDir = TRUE,
                    !.preCommit = File(HuskyHook) ]
    ELSE c

\* integrate.js:42-86: package.json is parsed; husky is installed and
\* initialised if it is not a dependency, initialised if .husky is missing;
\* a failing execSync ends the run; then the hook is read.
PackageRead ==
    /\ calc.fn = "integrateCommand"
    /\ calc.at = "readPackage"
    /\ LET read == [ calc EXCEPT !.packageJson = calc.packageJsonFile ] IN
       IF ~read.packageJson.husky
       THEN \E installed \in BOOLEAN, initialised \in BOOLEAN :
               LET npm == [ read EXCEPT !.packageJsonFile.husky = TRUE ] IN
               calc' = IF ~installed THEN [ read EXCEPT !.at = "idle" ]
                       ELSE IF ~initialised THEN [ npm EXCEPT !.at = "idle" ]
                       ELSE [ AfterHuskyInit(npm) EXCEPT !.at = "readHook" ]
       ELSE IF ~read.huskyDir
       THEN \E initialised \in BOOLEAN :
               calc' = IF ~initialised THEN [ read EXCEPT !.at = "idle" ]
                       ELSE [ AfterHuskyInit(read) EXCEPT !.at = "readHook" ]
       ELSE calc' = [ read EXCEPT !.at = "readHook" ]
    /\ UNCHANGED pipelineVars

\* integrate.js:129-140: the position after the hook step: the write of
\* package.json if the object read has no prepare script, else the end.
AfterHookStep(c) == IF ~c.packageJson.prepare THEN "writePackage" ELSE "idle"

\* integrate.js:86-117: the read of the hook settles; with the command in it
\* nothing is written, otherwise the new content is handed to writeFile.
HookRead ==
    /\ calc.fn = "integrateCommand"
    /\ calc.at = "readHook"
    /\ calc' = IF AlreadyIntegrated(ReadHook(calc.preCommit))
               THEN [ calc EXCEPT !.at = AfterHookStep(calc),
                                  !.hookSteps = Append(@, calc.preCommit.content) ]
               ELSE [ calc EXCEPT !.at = "writeHook",
                                  !.preCommitContent = UpdatedHook(calc.preCommit) ]
    /\ UNCHANGED pipelineVars

\* integrate.js:117-140: writeFile settles: without the .husky directory it
\* rejects and the catch of :146 ends the run; otherwise the hook has the new
\* content.
HookWritten ==
    /\ calc.fn = "integrateCommand"
    /\ calc.at = "writeHook"
    /\ calc' = IF ~calc.huskyDir
               THEN [ calc EXCEPT !.at = "idle" ]
               ELSE [ calc EXCEPT !.at = AfterHookStep(calc),
                                  !.preCommit = File(calc.preCommitContent),
                                  !.hookSteps = Append(@, calc.preCommitContent) ]
    /\ UNCHANGED pipelineVars

\* integrate.js:134-144: the object parsed at :43, with the prepare script
\* set, replaces package.json.
PackageWritten ==
    /\ calc.fn = "integrateCommand"
    /\ calc.at = "writePackage"
    /\ calc' = [ calc EXCEPT !.at = "idle",
                   !.packageJsonFile = [ husky |-> calc.packageJson.husky, prepare |-> TRUE ] ]
    /\ UNCHANGED pipelineVars

NextIntegrate ==
    \/ IntegrateStart
    \/ RepoChecked
    \/ PackageRead
    \/ HookRead
    \/ HookWritten
    \/ PackageWritten

SpecIntegrate == InitIntegrate /\ [][NextIntegrate]_vars

----------------------------------------------------------------------------
(* C26 - an existing hook is kept *)

\* The number of times part occurs in text.
CountOf(text, part) == Len(SplitOn(text, part)) - 1

\* C26: every step of integrateCommand keeps an existing pre-commit hook:
\* the content before is the beginning of the content after, what is added is
\* at most a line feed, the comment line and the line cr changes, and a hook
\* that holds cr changes is not changed at all.
C26_ExistingHookKept ==
    [][ ( calc.fn = "integrateCommand" /\ calc.preCommit.exists ) =>
            LET before == calc.preCommit.content
                after == calc'.preCommit.content
            IN /\ calc'.preCommit.exists
               /\ after \in { before,
                              before \o AddedComment \o CommandLine,
                              before \o Chars("\n") \o AddedComment \o CommandLine }
               /\ Includes(before, Chars("cr changes")) => after = before ]_vars

----------------------------------------------------------------------------
(* C30 - running integrateCommand again *)

====
